---- MODULE Spec2Model ----
(***************************************************************************)
(* Model of tools/generate_archive.py: one run of main(), from             *)
(* load_config to the write of the archive file, and parse_post applied    *)
(* to arbitrary first lines.                                               *)
(*                                                                         *)
(* Strings are sequences of tokens.  File names, first lines and titles    *)
(* are sequences of one-character strings, so that slicing, strip,         *)
(* startswith, replace and the lexicographic order are computed as Python  *)
(* computes them; the literal parts of f-strings are single tokens.        *)
(***************************************************************************)
EXTENDS Naturals, Sequences, FiniteSets

VARIABLES
    fs,                    \* the file system as the run has found it (input)
    cfg,                   \* the "sections" value of config.json (input)
    listing,               \* directory -> set of *.md file names (input)
    archive,               \* the archive file: [exists, content]
    pc,                    \* position in main()
    exit_code,             \* process exit code
    output,                \* lines printed so far
    sections,              \* main: sections
    si,                    \* main: index of the next section of the for loop
    all_posts,             \* main: all_posts
    section_bodies,        \* main: section_bodies
    current_section_posts, \* main: current_section_posts (last section scanned)
    lines,                 \* main: lines (last section scanned)
    recent_10,             \* main: recent_10
    recents_md_lines,      \* main: recents_md_lines
    recents_body,          \* main: recents_body
    template_content,      \* main: template_content
    final_content,         \* main: final_content
    pp_pc,                 \* parse_post harness: "call" or "return"
    pp_in,                 \* parse_post harness: file name, directory, read outcome
    pp_post                \* parse_post harness: the post returned

vars == <<fs, cfg, listing, archive, pc, exit_code, output, sections, si,
          all_posts, section_bodies, current_section_posts, lines, recent_10,
          recents_md_lines, recents_body, template_content, final_content,
          pp_pc, pp_in, pp_post>>

mainVars == <<fs, cfg, listing, archive, pc, exit_code, output, sections, si,
              all_posts, section_bodies, current_section_posts, lines,
              recent_10, recents_md_lines, recents_body, template_content,
              final_content>>

ppVars == <<pp_pc, pp_in, pp_post>>

(***************************************************************************)
(* Bounds and program constants                                            *)
(***************************************************************************)
\* number of distinct file names a directory may hold
MaxFiles == 3
\* number of entries of the "sections" list of config.json
MaxSections == 4
\* length of the first lines parse_post is applied to in SpecParse
MaxLineLen == 5
\* filename[:10]
DateLen == 10
\* all_posts[:10]
RecentLimit == 10

(***************************************************************************)
(* Python string and list primitives                                       *)
(***************************************************************************)
\* ord(c) for the characters that occur in file names
Ord(c) ==
    CASE c = "-" -> 45
      [] c = "." -> 46
      [] c = "0" -> 48
      [] c = "1" -> 49
      [] c = "2" -> 50
      [] c = "3" -> 51
      [] c = "4" -> 52
      [] c = "5" -> 53
      [] c = "6" -> 54
      [] c = "7" -> 55
      [] c = "8" -> 56
      [] c = "9" -> 57
      [] c = "a" -> 97
      [] c = "d" -> 100
      [] c = "m" -> 109

\* str.__lt__: lexicographic by code point, a proper prefix is smaller
RECURSIVE StrLessFrom(_, _, _)
StrLessFrom(a, b, i) ==
    IF i > Len(b) THEN FALSE
    ELSE IF i > Len(a) THEN TRUE
    ELSE IF a[i] = b[i] THEN StrLessFrom(a, b, i + 1)
    ELSE Ord(a[i]) < Ord(b[i])

StrLess(a, b) == StrLessFrom(a, b, 1)

\* s[:n]
Take(s, n) == SubSeq(s, 1, IF n < Len(s) THEN n ELSE Len(s))

\* s[n:]
Drop(s, n) == IF n >= Len(s) THEN <<>> ELSE SubSeq(s, n + 1, Len(s))

IsSpace(c) == c \in {" ", "\n"}

RECURSIVE LStrip(_)
LStrip(s) ==
    IF s # <<>> /\ IsSpace(Head(s)) THEN LStrip(Tail(s)) ELSE s

RECURSIVE RStrip(_)
RStrip(s) ==
    IF s # <<>> /\ IsSpace(s[Len(s)]) THEN RStrip(SubSeq(s, 1, Len(s) - 1)) ELSE s

\* str.strip(): leading and trailing whitespace removed
Strip(s) == LStrip(RStrip(s))

\* s.startswith(p)
StartsWith(s, p) == Len(s) >= Len(p) /\ SubSeq(s, 1, Len(p)) = p

\* s.replace(old, ""): every non-overlapping occurrence, left to right
RECURSIVE ReplaceAll(_, _)
ReplaceAll(s, old) ==
    IF s = <<>> THEN <<>>
    ELSE IF StartsWith(s, old) THEN ReplaceAll(Drop(s, Len(old)), old)
    ELSE <<Head(s)>> \o ReplaceAll(Tail(s), old)

\* sep.join(list), for a list of token sequences
RECURSIVE Join(_, _)
Join(sep, list) ==
    IF list = <<>> THEN <<>>
    ELSE IF Len(list) = 1 THEN list[1]
    ELSE list[1] \o <<sep>> \o Join(sep, Tail(list))

\* sorted(set_of_names, reverse=True); the paths of one glob share the
\* prefix ROOT_DIR/directory/, so their order is the order of the names
RECURSIVE SortedDesc(_)
SortedDesc(S) ==
    IF S = {} THEN <<>>
    ELSE LET m == CHOOSE x \in S : \A y \in S : ~StrLess(x, y)
         IN  <<m>> \o SortedDesc(S \ {m})

\* the posts of s whose file name is key, in the order they have in s
WithFilename(s, key) == SelectSeq(s, LAMBDA post : post.filename = key)

\* the posts of s by key, for the keys in the order given
RECURSIVE GroupByKeys(_, _)
GroupByKeys(s, keys) ==
    IF keys = <<>> THEN <<>>
    ELSE WithFilename(s, Head(keys)) \o GroupByKeys(s, Tail(keys))

\* list.sort without reverse=True: ascending by file name
SortByFilenameAsc(s) ==
    LET keys == SortedDesc({s[k].filename : k \in 1..Len(s)})
    IN  GroupByKeys(s, [k \in 1..Len(keys) |-> keys[Len(keys) + 1 - k]])

\* all_posts left in the order the sections were scanned in
Unsorted(s) == s

\* list.sort(key=lambda x: x["filename"], reverse=True): descending by
\* file name and stable, so posts with equal file names keep the order
\* they were appended in
SortByFilenameDesc(s) ==
    GroupByKeys(s, SortedDesc({s[k].filename : k \in 1..Len(s)}))

(***************************************************************************)
(* The inputs of a run: file names, file contents, config.json, template   *)
(***************************************************************************)
Digits == <<"0", "1", "2", "3", "4", "5", "6", "7", "8", "9">>

\* "2024-01-0i"
Day(i) == <<"2", "0", "2", "4", "-", "0", "1", "-", "0", Digits[i + 1]>>

\* the i-th file name: "2024-01-01.md", "2024-01-02-a.md", "a.md" (shorter
\* than a date), "2024-01-04-a.md", "2024-01-05.md", ...
FileNameOf(i) ==
    IF i = 3 THEN <<"a", ".", "m", "d">>
    ELSE Day(i) \o (IF i % 2 = 0 THEN <<"-", "a">> ELSE <<>>) \o <<".", "m", "d">>

FileNames == {FileNameOf(i) : i \in 1..MaxFiles}

Dirs == {"posts", "slogs"}

\* the outcome of open(file_path) and f.readline()
Unreadable == [ok |-> FALSE, line |-> <<>>]
Readable(line) == [ok |-> TRUE, line |-> line]

\* The first line of every file that may exist.
ReadFirstLine(directory, filename) ==
    LET i == CHOOSE k \in 1..MaxFiles : FileNameOf(k) = filename
    IN  IF directory = "posts"
        THEN CASE i = 1 -> Readable(<<"#", " ">> \o Day(1) \o <<"\n">>)
               [] i = 2 -> Readable(<<"#", " ", "a", "#", " ", "b", "\n">>)
               [] i = 3 -> Readable(<<"a", "\n">>)
               [] OTHER -> Unreadable
        ELSE CASE i = 1 -> Readable(<<"#", " ">> \o Day(1) \o <<"\n">>)
               [] i = 2 -> Unreadable
               [] i = 3 -> Readable(<<" ", "#", " ", "t">>)
               [] OTHER -> Readable(<<>>)

\* the entries "sections" may hold: one with and one without a description
SectionChoices ==
    { [dir |-> "posts", title |-> "Posts", description |-> "Long posts"],
      [dir |-> "slogs", title |-> "Logs"] }

SectionLists == UNION {[1..n -> SectionChoices] : n \in 0..MaxSections}

Placeholders == {"{recents}", "{body}", "{updated_at}", "{author}"}

\* the text of the template file: with the three placeholders of the
\* format call, or with one more
TemplateText(kind) ==
    IF kind = "ok"
    THEN <<"# Archive\n", "{recents}", "\n", "{body}", "Updated: ", "{updated_at}">>
    ELSE <<"# Archive\n", "{recents}", "\n", "{body}", "By ", "{author}", "{updated_at}">>

\* datetime.now().strftime(...)
Clock == {"2026-01-01 00:00:00", "2026-01-02 00:00:00"}

NoFile == [exists |-> FALSE, content |-> <<>>]
OldArchive == [exists |-> TRUE, content |-> <<"old archive">>]

\* What the run knows of the file system before it opens anything: the
\* archive file is there or not; config.json, the template file and the
\* directory of the archive path are found as they are when main opens them.
Unopened(before) ==
    [config |-> "unopened", template |-> "unopened", archive_dir |-> "unopened",
     archive_before |-> before]

(***************************************************************************)
(* parse_post and generate_md_list_item                                    *)
(***************************************************************************)
\* title extraction with no file name to fall back on
ExtractTitle_NoFallback(filename, read) ==
    IF ~read.ok THEN <<>>
    ELSE LET first_line == Strip(read.line)
         IN  IF StartsWith(first_line, <<"#", " ">>)
             THEN ReplaceAll(first_line, <<"#", " ">>)
             ELSE filename

\* title extraction of parse_post, lines 35-42
ExtractTitle(filename, read) ==
    IF ~read.ok THEN filename
    ELSE LET first_line == Strip(read.line)
         IN  IF StartsWith(first_line, <<"#", " ">>)
             THEN ReplaceAll(first_line, <<"#", " ">>)
             ELSE filename

\* parse_post(file_path, directory); read is what open and readline give
parse_post(filename, directory, read) ==
    [ title    |-> ExtractTitle(filename, read),
      filename |-> filename,
      date     |-> Take(filename, DateLen),
      path     |-> <<"./", directory, "/">> \o filename,
      dir_type |-> directory ]

DateSuffix(post) == <<" <small>(">> \o post.date \o <<")</small>">>

\* the condition with `and` for `or`
OmitDate_And(post) == post.title = post.date /\ post.dir_type = "slogs"

\* the condition of generate_md_list_item under which the date is left out
OmitDate(post) == post.title = post.date \/ post.dir_type = "slogs"

generate_md_list_item(post) ==
    IF OmitDate(post)
    THEN <<"- [">> \o post.title \o <<"](">> \o post.path \o <<")">>
    ELSE <<"- [">> \o post.title \o <<"](">> \o post.path \o <<")">> \o DateSuffix(post)

(***************************************************************************)
(* main()                                                                  *)
(***************************************************************************)
Emit(msg) == output' = Append(output, msg)

MsgLoading == <<"Loading config...">>
MsgConfigNotFound == <<"Error: Config file not found">>
MsgScanning == <<"Scanning posts...">>
MsgTemplateNotFound == <<"Error: Template not found">>
MsgUpdated(n) == <<"Updated", n>>

\* files = sorted(glob.glob(search_path), reverse=True)
Files(directory) == SortedDesc(listing[directory])

\* the posts of one section in scan order, lines 88-92
RECURSIVE ParseAll(_, _)
ParseAll(files, directory) ==
    IF files = <<>> THEN <<>>
    ELSE <<parse_post(Head(files), directory,
                     ReadFirstLine(directory, Head(files)))>>
         \o ParseAll(Tail(files), directory)

ScanPosts(directory) == ParseAll(Files(directory), directory)

\* the list `lines` of one section, lines 95-102
SectionLines(section, posts) ==
    <<  <<"## ", section.title>>  >>
    \o (IF "description" \in DOMAIN section
        THEN <<  <<"> ", section.description, "\n">>  >>
        ELSE <<>>)
    \o [k \in 1..Len(posts) |-> generate_md_list_item(posts[k])]
    \o <<  <<>>  >>

\* "\n".join(section_bodies), the body argument of format
Body == Join("\n", section_bodies)

\* whether str.format finds every placeholder of the template among its
\* keyword arguments
FormatSucceeds(template) ==
    \A k \in 1..Len(template) :
        template[k] \in Placeholders =>
            template[k] \in {"{recents}", "{body}", "{updated_at}"}

\* template.format(recents=..., body=..., updated_at=...)
RECURSIVE Format(_, _, _, _)
Format(template, recents, body, updated_at) ==
    IF template = <<>> THEN <<>>
    ELSE LET t == Head(template)
             v == CASE t = "{recents}" -> recents
                    [] t = "{body}" -> body
                    [] t = "{updated_at}" -> <<updated_at>>
                    [] OTHER -> <<t>>
         IN  v \o Format(Tail(template), recents, body, updated_at)

\* load_config without exit(1): an empty configuration is returned
LoadConfigMissing_DefaultConfig ==
    /\ pc = "load_config"
    /\ fs' = [fs EXCEPT !.config = "missing"]
    /\ output' = output \o <<MsgLoading, MsgConfigNotFound, MsgScanning>>
    /\ sections' = <<>>
    /\ si' = 1
    /\ pc' = "scan"
    /\ UNCHANGED <<cfg, listing, archive, exit_code, all_posts,
                   section_bodies, current_section_posts, lines, recent_10,
                   recents_md_lines, recents_body, template_content,
                   final_content, ppVars>>

\* load_config finds no config.json: prints the error and calls exit(1)
LoadConfigMissing ==
    /\ pc = "load_config"
    /\ fs' = [fs EXCEPT !.config = "missing"]
    /\ output' = output \o <<MsgLoading, MsgConfigNotFound>>
    /\ exit_code' = 1
    /\ pc' = "exited"
    /\ UNCHANGED <<cfg, listing, archive, sections, si, all_posts,
                   section_bodies, current_section_posts, lines, recent_10,
                   recents_md_lines, recents_body, template_content,
                   final_content, ppVars>>

\* load_config returns the configuration; main reads "sections" from it
LoadConfig ==
    /\ pc = "load_config"
    /\ fs' = [fs EXCEPT !.config = "present"]
    /\ output' = output \o <<MsgLoading, MsgScanning>>
    /\ sections' = cfg
    /\ si' = 1
    /\ all_posts' = <<>>
    /\ section_bodies' = <<>>
    /\ pc' = "scan"
    /\ UNCHANGED <<cfg, listing, archive, exit_code,
                   current_section_posts, lines, recent_10, recents_md_lines,
                   recents_body, template_content, final_content, ppVars>>

\* the iteration without `continue`: a block with the heading alone
ScanEmptySection_EmitsBlock ==
    /\ pc = "scan"
    /\ si <= Len(sections)
    /\ listing[sections[si].dir] = {}
    /\ current_section_posts' = <<>>
    /\ lines' = SectionLines(sections[si], <<>>)
    /\ section_bodies' = Append(section_bodies, Join("\n", lines'))
    /\ si' = si + 1
    /\ UNCHANGED <<fs, cfg, listing, archive, pc, exit_code, output, sections,
                   all_posts, recent_10, recents_md_lines, recents_body,
                   template_content, final_content, ppVars>>

\* one iteration of the for loop whose glob matches nothing: continue
ScanEmptySection ==
    /\ pc = "scan"
    /\ si <= Len(sections)
    /\ listing[sections[si].dir] = {}
    /\ si' = si + 1
    /\ UNCHANGED <<fs, cfg, listing, archive, pc, exit_code, output, sections,
                   all_posts, section_bodies, current_section_posts, lines,
                   recent_10, recents_md_lines, recents_body,
                   template_content, final_content, ppVars>>

\* one iteration of the for loop over a section with files
ScanSection ==
    /\ pc = "scan"
    /\ si <= Len(sections)
    /\ listing[sections[si].dir] # {}
    /\ current_section_posts' = ScanPosts(sections[si].dir)
    /\ all_posts' = all_posts \o current_section_posts'
    /\ lines' = SectionLines(sections[si], current_section_posts')
    /\ section_bodies' = Append(section_bodies, Join("\n", lines'))
    /\ si' = si + 1
    /\ UNCHANGED <<fs, cfg, listing, archive, pc, exit_code, output, sections,
                   recent_10, recents_md_lines, recents_body,
                   template_content, final_content, ppVars>>

\* after the loop: sort all_posts in place, keep the first ten, format them
BuildRecents ==
    /\ pc = "scan"
    /\ si > Len(sections)
    /\ all_posts' = SortByFilenameDesc(all_posts)
    /\ recent_10' = Take(all_posts', RecentLimit)
    /\ recents_md_lines' =
          [k \in 1..Len(recent_10') |-> generate_md_list_item(recent_10'[k])]
    /\ recents_body' = Join("\n", recents_md_lines')
    /\ pc' = "read_template"
    /\ UNCHANGED <<fs, cfg, listing, archive, exit_code, output, sections, si,
                   section_bodies, current_section_posts, lines,
                   template_content, final_content, ppVars>>

\* the handler of main's try: it prints and main returns
HandleFileNotFound ==
    /\ Emit(MsgTemplateNotFound)
    /\ pc' = "returned"

\* a missing template taken for an empty one
ReadTemplateMissing_EmptyTemplate ==
    /\ pc = "read_template"
    /\ fs' = [fs EXCEPT !.template = "missing"]
    /\ template_content' = <<>>
    /\ pc' = "format"
    /\ UNCHANGED <<cfg, listing, archive, exit_code, output, sections, si,
                   all_posts, section_bodies, current_section_posts, lines,
                   recent_10, recents_md_lines, recents_body, final_content,
                   ppVars>>

\* open(template_file) raises FileNotFoundError
ReadTemplateMissing ==
    /\ pc = "read_template"
    /\ fs' = [fs EXCEPT !.template = "missing"]
    /\ HandleFileNotFound
    /\ UNCHANGED <<cfg, listing, archive, exit_code, sections, si,
                   all_posts, section_bodies, current_section_posts, lines,
                   recent_10, recents_md_lines, recents_body,
                   template_content, final_content, ppVars>>

\* template_content = f.read()
ReadTemplate ==
    /\ pc = "read_template"
    /\ \E kind \in {"ok", "bad"} :
          /\ fs' = [fs EXCEPT !.template = kind]
          /\ template_content' = TemplateText(kind)
    /\ pc' = "format"
    /\ UNCHANGED <<cfg, listing, archive, exit_code, output, sections, si,
                   all_posts, section_bodies, current_section_posts, lines,
                   recent_10, recents_md_lines, recents_body, final_content,
                   ppVars>>

\* the KeyError caught by a handler of every exception
FormatTemplateFails_Handled ==
    /\ pc = "format"
    /\ ~FormatSucceeds(template_content)
    /\ HandleFileNotFound
    /\ UNCHANGED <<fs, cfg, listing, archive, exit_code, sections, si,
                   all_posts, section_bodies, current_section_posts, lines,
                   recent_10, recents_md_lines, recents_body,
                   template_content, final_content, ppVars>>

\* template_content.format(...) raises KeyError, which no handler catches
FormatTemplateFails ==
    /\ pc = "format"
    /\ ~FormatSucceeds(template_content)
    /\ pc' = "raised"
    /\ exit_code' = 1
    /\ UNCHANGED <<fs, cfg, listing, archive, output, sections, si, all_posts,
                   section_bodies, current_section_posts, lines, recent_10,
                   recents_md_lines, recents_body, template_content,
                   final_content, ppVars>>

\* now = datetime.now()...; final_content = template_content.format(...)
FormatTemplate ==
    /\ pc = "format"
    /\ FormatSucceeds(template_content)
    /\ \E now \in Clock :
          final_content' = Format(template_content, recents_body, Body, now)
    /\ pc' = "write"
    /\ UNCHANGED <<fs, cfg, listing, archive, exit_code, output, sections, si,
                   all_posts, section_bodies, current_section_posts, lines,
                   recent_10, recents_md_lines, recents_body,
                   template_content, ppVars>>

\* open(archive_file, "w") raises FileNotFoundError: the directory of the
\* archive path does not exist (so neither does the archive file)
WriteArchiveNoDirectory ==
    /\ pc = "write"
    /\ ~archive.exists
    /\ fs' = [fs EXCEPT !.archive_dir = "missing"]
    /\ HandleFileNotFound
    /\ UNCHANGED <<cfg, listing, archive, exit_code, sections, si,
                   all_posts, section_bodies, current_section_posts, lines,
                   recent_10, recents_md_lines, recents_body,
                   template_content, final_content, ppVars>>

\* f.write(final_content) and the success report
WriteArchive ==
    /\ pc = "write"
    /\ fs' = [fs EXCEPT !.archive_dir = "exists"]
    /\ archive' = [exists |-> TRUE, content |-> final_content]
    /\ Emit(MsgUpdated(Len(recent_10)))
    /\ pc' = "returned"
    /\ UNCHANGED <<cfg, listing, exit_code, sections, si, all_posts,
                   section_bodies, current_section_posts, lines, recent_10,
                   recents_md_lines, recents_body, template_content,
                   final_content, ppVars>>

\* the state before main() runs
Init ==
    /\ fs \in {Unopened(NoFile), Unopened(OldArchive)}
    /\ cfg \in SectionLists
    /\ listing \in [Dirs -> SUBSET FileNames]
    /\ archive = fs.archive_before
    /\ pc = "load_config"
    /\ exit_code = 0
    /\ output = <<>>
    /\ sections = <<>>
    /\ si = 1
    /\ all_posts = <<>>
    /\ section_bodies = <<>>
    /\ current_section_posts = <<>>
    /\ lines = <<>>
    /\ recent_10 = <<>>
    /\ recents_md_lines = <<>>
    /\ recents_body = <<>>
    /\ template_content = <<>>
    /\ final_content = <<>>
    /\ pp_pc = "idle"
    /\ pp_in = [filename |-> <<>>, directory |-> "posts", read |-> Unreadable]
    /\ pp_post = parse_post(<<>>, "posts", Unreadable)

Next ==
    \/ LoadConfigMissing
    \/ LoadConfig
    \/ ScanEmptySection
    \/ ScanSection
    \/ BuildRecents
    \/ ReadTemplateMissing
    \/ ReadTemplate
    \/ FormatTemplateFails
    \/ FormatTemplate
    \/ WriteArchiveNoDirectory
    \/ WriteArchive

Spec == Init /\ [][Next]_vars

(***************************************************************************)
(* parse_post on its own: every first line up to MaxLineLen characters     *)
(***************************************************************************)
LineChars == {"#", " ", "a"}

\* what readline may return: the characters of the first line, with the
\* newline that ends it unless the file ends there
FirstLines ==
    LET bodies == UNION {[1..n -> LineChars] : n \in 0..MaxLineLen}
    IN  bodies \cup {b \o <<"\n">> : b \in bodies}

ReadOutcomes == {Unreadable} \cup {Readable(l) : l \in FirstLines}

ParseInit ==
    /\ fs = Unopened(NoFile)
    /\ cfg = <<>>
    /\ listing = [d \in Dirs |-> {}]
    /\ archive = NoFile
    /\ pc = "idle"
    /\ exit_code = 0
    /\ output = <<>>
    /\ sections = <<>>
    /\ si = 1
    /\ all_posts = <<>>
    /\ section_bodies = <<>>
    /\ current_section_posts = <<>>
    /\ lines = <<>>
    /\ recent_10 = <<>>
    /\ recents_md_lines = <<>>
    /\ recents_body = <<>>
    /\ template_content = <<>>
    /\ final_content = <<>>
    /\ pp_pc = "call"
    /\ pp_in \in [filename : FileNames, directory : Dirs, read : ReadOutcomes]
    /\ pp_post = parse_post(<<>>, "posts", Unreadable)

\* post = parse_post(file_path, directory)
ParsePostCall ==
    /\ pp_pc = "call"
    /\ pp_post' = parse_post(pp_in.filename, pp_in.directory, pp_in.read)
    /\ pp_pc' = "return"
    /\ UNCHANGED <<mainVars, pp_in>>

ParseNext == ParsePostCall

SpecParse == ParseInit /\ [][ParseNext]_vars

(***************************************************************************)
(* Properties                                                              *)
(***************************************************************************)
Last(s) == s[Len(s)]

Contains(s, x) == \E k \in 1..Len(s) : s[k] = x

\* nothing of lines 73-126 has happened
NothingProcessed ==
    /\ sections = <<>>
    /\ si = 1
    /\ all_posts = <<>>
    /\ section_bodies = <<>>
    /\ current_section_posts = <<>>
    /\ lines = <<>>
    /\ recent_10 = <<>>
    /\ recents_md_lines = <<>>
    /\ template_content = <<>>
    /\ final_content = <<>>

\* C1: when config.json is missing the run goes from load_config straight
\* to exit(1), having printed the config error; no section is scanned, no
\* post parsed, no template read, and the archive file is as it was.
C1_ConfigMissingAborts ==
    fs.config = "missing" =>
        /\ pc \in {"load_config", "exited"}
        /\ NothingProcessed
        /\ archive = fs.archive_before
        /\ pc = "exited" =>
              /\ exit_code = 1
              /\ output = <<MsgLoading, MsgConfigNotFound>>

C1_Witness ==
    /\ fs.config = "missing"
    /\ pc = "exited"
    /\ archive = OldArchive
    /\ cfg # <<>>
    /\ \A i \in 1..Len(cfg) : listing[cfg[i].dir] # {}

\* C2: with config.json present and the template file missing, the run
\* ends by printing an error and the archive file is neither created nor
\* modified, whatever the sections and posts.
C2_TemplateMissingNoWrite ==
    (fs.config = "present" /\ fs.template = "missing") =>
        /\ archive = fs.archive_before
        /\ pc = "returned"
        /\ Last(output) = MsgTemplateNotFound

C2_Witness ==
    /\ fs.config = "present"
    /\ fs.template = "missing"
    /\ pc = "returned"
    /\ Last(output) = MsgTemplateNotFound
    /\ archive = OldArchive
    /\ Len(all_posts) > 1

\* the line of a post: the date suffix exactly when title # date and the
\* directory is not slogs
LineFollowsRule(line, post) ==
    LET base == <<"- [">> \o post.title \o <<"](">> \o post.path \o <<")">>
    IN  IF post.title # post.date /\ post.dir_type # "slogs"
        THEN line = base \o <<" <small>(">> \o post.date \o <<")</small>">>
        ELSE line = base

\* the position in `lines` of the line of the k-th post of the section
ItemIndex(k) == Len(lines) - 1 - Len(current_section_posts) + k

HasSuffix(line) == line # <<>> /\ Last(line) = ")</small>"

C6_TitleIsRemainderOfHeading ==
    (/\ pp_pc = "return"
     /\ pp_in.read.ok
     /\ ~(pp_in.read.line # <<>> /\ IsSpace(Head(pp_in.read.line)))) =>
        LET first_line == RStrip(pp_in.read.line)
        IN  pp_post.title =
                IF StartsWith(first_line, <<"#", " ">>)
                THEN Drop(first_line, 2)
                ELSE pp_in.filename

\* C10: the "Template not found" report appears only in runs whose
\* template file is missing.
C10_TemplateReportOnlyWhenMissing ==
    Contains(output, MsgTemplateNotFound) => fs.template = "missing"

(***************************************************************************)
(* Recents                                                                 *)
(***************************************************************************)
Min(a, b) == IF a < b THEN a ELSE b

\* the sections of config.json, by index, that list file name f
SectionsListing(f) == {i \in 1..Len(cfg) : f \in listing[cfg[i].dir]}

\* N: the number of posts of all sections together
RECURSIVE TotalPosts(_)
TotalPosts(n) ==
    IF n = 0 THEN 0 ELSE TotalPosts(n - 1) + Cardinality(listing[cfg[n].dir])

\* the entries of recents whose file name is f
RecentsNamed(f) == {k \in 1..Len(recent_10) : recent_10[k].filename = f}

RecentsBuilt == pc \in {"read_template", "format", "write", "returned", "raised"}

\* C4: recents has min(10, N) entries, in descending file name order, and
\* no post left out has a greater file name than a post kept.
C4_RecentsTopTen ==
    RecentsBuilt =>
        /\ Len(recent_10) = Min(RecentLimit, TotalPosts(Len(cfg)))
        /\ Len(recents_md_lines) = Len(recent_10)
        /\ \A i \in 1..(Len(recent_10) - 1) :
              ~StrLess(recent_10[i].filename, recent_10[i + 1].filename)
        /\ \A k \in 1..Len(recent_10) :
              /\ \E i \in 1..Len(cfg) : cfg[i].dir = recent_10[k].dir_type
              /\ recent_10[k].filename \in listing[recent_10[k].dir_type]
        /\ \A f \in FileNames :
              /\ Cardinality(RecentsNamed(f)) <= Cardinality(SectionsListing(f))
              /\ Cardinality(RecentsNamed(f)) < Cardinality(SectionsListing(f)) =>
                    \A k \in 1..Len(recent_10) :
                        ~StrLess(recent_10[k].filename, f)

C4_Witness ==
    /\ pc = "read_template"
    /\ TotalPosts(Len(cfg)) > RecentLimit
    /\ Len(recent_10) = RecentLimit
    /\ \E f \in FileNames :
          Cardinality(RecentsNamed(f)) < Cardinality(SectionsListing(f))
    /\ recent_10[1].dir_type # recent_10[2].dir_type

\* cfg with the entries at i and i + 1 exchanged
Swapped(i) ==
    [k \in 1..Len(cfg) |->
        IF k = i THEN cfg[i + 1] ELSE IF k = i + 1 THEN cfg[i] ELSE cfg[k]]

\* all_posts at the end of the for loop over the list secs
RECURSIVE PostsOf(_)
PostsOf(secs) ==
    IF secs = <<>> THEN <<>>
    ELSE ScanPosts(Head(secs).dir) \o PostsOf(Tail(secs))

\* recent_10 of a run over the list secs
RecentPostsOf(secs) == Take(SortByFilenameDesc(PostsOf(secs)), RecentLimit)

\* the recents value of a run over the list secs
RECURSIVE ItemsOf(_)
ItemsOf(posts) ==
    IF posts = <<>> THEN <<>>
    ELSE <<generate_md_list_item(Head(posts))>> \o ItemsOf(Tail(posts))

RecentsOf(secs) == Join("\n", ItemsOf(RecentPostsOf(secs)))

FileNamesOf(posts) == [k \in 1..Len(posts) |-> posts[k].filename]

\* no file name occurs in two different configured directories
NoSharedFileName ==
    \A i, j \in 1..Len(cfg) :
        cfg[i].dir # cfg[j].dir => listing[cfg[i].dir] \cap listing[cfg[j].dir] = {}

\* the neighbours in config.json whose exchange gives another configuration
Exchanges == {i \in 1..(Len(cfg) - 1) : cfg[i].dir # cfg[i + 1].dir}

ScanStarted == pc \notin {"idle", "load_config", "exited"}

Terminated == pc \in {"exited", "returned", "raised"}

\* text.split("\n") for a text whose newlines are "\n" tokens
RECURSIVE SplitLines(_)
SplitLines(text) ==
    LET newlines == {k \in 1..Len(text) : text[k] = "\n"}
    IN  IF newlines = {} THEN <<text>>
        ELSE LET n == CHOOSE k \in newlines : \A j \in newlines : k <= j
             IN  <<SubSeq(text, 1, n - 1)>> \o SplitLines(Drop(text, n))

\* the state in which main passes the body to format
BodyUsed == pc = "format" /\ fs.template = "ok"

\* the sections among the first n of config.json whose directory has files
NonEmpty(n) == {i \in 1..n : listing[cfg[i].dir] # {}}

\* the lines a block has before its posts: heading, blockquote, blank line
HeadLines(section) == IF "description" \in DOMAIN section THEN 3 ELSE 1

BlockLen(section) == HeadLines(section) + Cardinality(listing[section.dir]) + 1

\* the number of lines of the blocks of the non-empty sections before i
RECURSIVE BlockStart(_)
BlockStart(i) ==
    IF i <= 1 THEN 0
    ELSE BlockStart(i - 1)
         + (IF listing[cfg[i - 1].dir] # {} THEN BlockLen(cfg[i - 1]) ELSE 0)

\* in the line of a post "- [title](./dir/filename)...": dir and filename
SlashAt(line) == CHOOSE k \in 1..Len(line) : line[k] = "/"
CloseAt(line) == CHOOSE k \in 1..Len(line) : line[k] = ")"
IsPostLine(line) ==
    /\ line # <<>>
    /\ line[1] = "- ["
    /\ \E k \in 1..Len(line) : line[k] = "/"
    /\ \E k \in 1..Len(line) : line[k] = ")"
DirInLine(line) == line[SlashAt(line) - 1]
NameInLine(line) == SubSeq(line, SlashAt(line) + 1, CloseAt(line) - 1)

\* the lines ls hold, from the line after BlockStart(i), the block of
\* section i: heading, description and blank line if it has one, the posts
\* of its directory in descending file name order, a blank line
BlockAt(ls, i) ==
    LET section == cfg[i]
        at == BlockStart(i)
        h == HeadLines(section)
        n == Cardinality(listing[section.dir])
    IN  /\ Len(ls) >= at + h + n + 1
        /\ ls[at + 1] = <<"## ", section.title>>
        /\ h = 3 => /\ ls[at + 2] = <<"> ", section.description>>
                    /\ ls[at + 3] = <<>>
        /\ \A k \in 1..n :
              /\ IsPostLine(ls[at + h + k])
              /\ DirInLine(ls[at + h + k]) = section.dir
              /\ NameInLine(ls[at + h + k]) \in listing[section.dir]
        /\ \A k \in 1..(n - 1) :
              StrLess(NameInLine(ls[at + h + k + 1]), NameInLine(ls[at + h + k]))
        /\ ls[at + h + n + 1] = <<>>

\* the archive file holds the template with its placeholders filled in
ArchiveWritten ==
    /\ archive.exists
    /\ \E now \in Clock :
          archive.content =
              <<"# Archive\n">> \o recents_body \o <<"\n">> \o Body
                  \o <<"Updated: ", now>>

\* C7: the body is, in configuration order, one block per configured
\* section that has files, its posts in descending file name order; a
\* section without files adds no block and no post and raises nothing; with
\* no section that has files the body and recents are empty and the run
\* still writes the archive.
C7_BodyIsBlocksInConfigOrder ==
    ScanStarted =>
        LET n == si - 1
        IN  /\ Len(section_bodies) = Cardinality(NonEmpty(n))
            /\ pc = "scan" => Len(all_posts) = TotalPosts(n)
            /\ (BodyUsed /\ NonEmpty(n) # {}) =>
                  LET ls == SplitLines(Body)
                  IN  /\ n = Len(cfg)
                      /\ Len(ls) = BlockStart(n + 1)
                      /\ \A i \in NonEmpty(n) : BlockAt(ls, i)
            /\ NonEmpty(n) = {} =>
                  /\ Body = <<>>
                  /\ all_posts = <<>>
                  /\ RecentsBuilt => recents_body = <<>>
            /\ pc = "raised" => fs.template = "bad"
            /\ (pc = "returned" /\ fs.archive_dir = "exists") => ArchiveWritten

C7_Witness ==
    /\ pc = "returned"
    /\ ArchiveWritten
    /\ \E i, j, k \in 1..Len(cfg) :
          /\ i < j /\ j < k
          /\ listing[cfg[i].dir] # {}
          /\ listing[cfg[j].dir] = {}
          /\ Cardinality(listing[cfg[k].dir]) > 1
    /\ Len(section_bodies) = Len(cfg) - 1

\* the post parse_post returns for a file it cannot read
FallbackPost(directory, filename) ==
    [ title    |-> filename,
      filename |-> filename,
      date     |-> Take(filename, DateLen),
      path     |-> <<"./", directory, "/">> \o filename,
      dir_type |-> directory ]

\* the files of the sections scanned so far that cannot be read
UnreadableScanned ==
    {df \in Dirs \X FileNames :
        /\ \E i \in 1..(si - 1) : cfg[i].dir = df[1]
        /\ df[2] \in listing[df[1]]
        /\ ~ReadFirstLine(df[1], df[2]).ok}

\* C8: a file that cannot be read gives a post with the file name as title;
\* the post is in all_posts once per section that lists it and has its
\* line in the body, the scan goes on to the files and sections after it,
\* and nothing is raised before the template is formatted.
C8_UnreadableFileAbsorbed ==
    ScanStarted =>
        /\ \A df \in UnreadableScanned :
              Cardinality({k \in 1..Len(all_posts) :
                              all_posts[k] = FallbackPost(df[1], df[2])})
                = Cardinality({j \in 1..(si - 1) : cfg[j].dir = df[1]})
        /\ BodyUsed =>
              LET ls == SplitLines(Body)
              IN  \A df \in UnreadableScanned :
                      \E k \in 1..Len(ls) :
                          StartsWith(ls[k],
                                     <<"- [">> \o df[2] \o <<"](", "./", df[1], "/">>
                                         \o df[2] \o <<")">>)
        /\ pc = "scan" => Len(all_posts) = TotalPosts(si - 1)
        /\ pc = "raised" => fs.template = "bad"

C8_Witness ==
    /\ pc = "write"
    /\ \E k \in 1..(Len(current_section_posts) - 1) :
          /\ ~ReadFirstLine(current_section_posts[k].dir_type,
                            current_section_posts[k].filename).ok
          /\ current_section_posts[k].title = current_section_posts[k].filename
    /\ \E k \in 1..Len(recent_10) :
          ~ReadFirstLine(recent_10[k].dir_type, recent_10[k].filename).ok
    /\ \E i \in 1..(Len(cfg) - 1) :
          /\ \E f \in listing[cfg[i].dir] : ~ReadFirstLine(cfg[i].dir, f).ok
          /\ listing[cfg[i + 1].dir] # {}
          /\ cfg[i + 1].dir # cfg[i].dir

\* the order of the stages of main
StageOrder ==
    { <<"load_config", "exited">>, <<"load_config", "scan">>,
      <<"scan", "read_template">>, <<"read_template", "returned">>,
      <<"read_template", "format">>, <<"format", "raised">>,
      <<"format", "write">>, <<"write", "returned">> }

\* C9: the archive file is written at most once, in the step that follows
\* the loading of the config, the scan of every section, the reading of
\* the template and its substitution, in that order; a template with a
\* placeholder other than the three raises out of main, is not reported as
\* "Template not found", and leaves the archive file as it was.
C9_WriteOnceAfterAllStages ==
    /\ [][ /\ pc' # pc => <<pc, pc'>> \in StageOrder
           /\ Terminated => UNCHANGED vars
           /\ archive' # archive =>
                 /\ pc = "write" /\ pc' = "returned"
                 /\ fs.config = "present"
                 /\ sections = cfg /\ si = Len(cfg) + 1
                 /\ fs.template = "ok"
                 /\ template_content = TemplateText("ok")
                 /\ archive' = [exists |-> TRUE, content |-> final_content]
                 /\ ArchiveWritten' ]_vars
    /\ [](fs.template = "bad" =>
             /\ pc \in {"format", "raised"}
             /\ archive = fs.archive_before
             /\ ~Contains(output, MsgTemplateNotFound)
             /\ pc = "raised" => exit_code = 1)

C9_Witness ==
    /\ pc = "raised"
    /\ fs.template = "bad"
    /\ archive = OldArchive
    /\ Len(section_bodies) > 1

====
